---- MODULE Spec2Model ----
(***************************************************************************)
(* esp32/scripts/pack_payload.py: packing per-architecture file trees into *)
(* one payload binary (header, architecture table, per-architecture        *)
(* manifest and data).                                                     *)
(*                                                                         *)
(* Byte strings are sequences of segments.  A segment is either a run of   *)
(* literal bytes (k = "lit", the bytes in v) or a run of len bytes taken   *)
(* from position `from` of an opaque byte string: the content of a file    *)
(* (k = "raw"), its raw deflate stream (k = "z") or the Adler-32 trailer   *)
(* zlib puts after it (k = "adler").  Every byte string is kept in normal  *)
(* form (no empty segment, adjacent runs merged) so that equality of the   *)
(* representation is equality of bytes.  Text is a sequence of codepoints. *)
(***************************************************************************)
EXTENDS Integers, Sequences, FiniteSets, TLC

\* ------------------------------------------------------------ bounds
MaxFiles == 2

\* ------------------------------------------------- program constants
COMPRESS_THRESHOLD == 4096
max_size == 2686976
HeaderSize == 8
ArchEntrySize == 24
ManifestEntrySize == 136
PathField == 128
NameField == 16
Slash == 47
Backslash == 92
NoArchStatus == 1
OversizeStatus == 1

\* ------------------------------------------------------- byte strings
Lit(v) ==
  IF Len(v) = 0 THEN << >>
  ELSE << [k |-> "lit", id |-> 0, from |-> 0, len |-> Len(v), v |-> v] >>

Chunk(kind, id, from, n) ==
  IF n <= 0 THEN << >>
  ELSE << [k |-> kind, id |-> id, from |-> from, len |-> n, v |-> << >>] >>

RECURSIVE BLen(_)
BLen(s) == IF s = << >> THEN 0 ELSE s[1].len + BLen(Tail(s))

\* bytes a .. a+n-1 of one segment
Part(h, a, n) ==
  IF h.k = "lit" THEN [h EXCEPT !.len = n, !.v = SubSeq(h.v, a + 1, a + n)]
  ELSE [h EXCEPT !.from = h.from + a, !.len = n]

\* a + b on bytes
Join(a, b) ==
  IF a = << >> THEN b
  ELSE IF b = << >> THEN a
  ELSE LET x == a[Len(a)]
           y == b[1]
           front == SubSeq(a, 1, Len(a) - 1)
       IN  IF x.k = "lit" /\ y.k = "lit"
             THEN front \o << [x EXCEPT !.len = x.len + y.len, !.v = x.v \o y.v] >> \o Tail(b)
           ELSE IF x.k = y.k /\ x.k # "lit" /\ x.id = y.id /\ x.from + x.len = y.from
             THEN front \o << [x EXCEPT !.len = x.len + y.len] >> \o Tail(b)
           ELSE a \o b

RECURSIVE Take(_, _)
Take(s, n) ==
  IF n <= 0 \/ s = << >> THEN << >>
  ELSE IF s[1].len <= n THEN << s[1] >> \o Take(Tail(s), n - s[1].len)
  ELSE << Part(s[1], 0, n) >>

RECURSIVE Drop(_, _)
Drop(s, n) ==
  IF s = << >> THEN << >>
  ELSE IF n <= 0 THEN s
  ELSE IF s[1].len <= n THEN Drop(Tail(s), n - s[1].len)
  ELSE << Part(s[1], n, s[1].len - n) >> \o Tail(s)

\* s[lo:hi] for 0 <= lo
Slice(s, lo, hi) == Take(Drop(s, lo), hi - lo)

\* the literal bytes of a byte string made of literal bytes only, else << -1 >>
LitOf(s) ==
  IF s = << >> THEN << >>
  ELSE IF Len(s) = 1 /\ s[1].k = "lit" THEN s[1].v
  ELSE << -1 >>

\* struct.pack("<I", x)
U32(x) == << x % 256, (x \div 256) % 256, (x \div 65536) % 256, (x \div 16777216) % 256 >>

\* struct.pack("<H", x)
U16(x) == << x % 256, (x \div 256) % 256 >>

\* bytes.ljust(width, b"\x00")
Ljust(b, width) ==
  IF Len(b) >= width THEN b
  ELSE [i \in 1..width |-> IF i <= Len(b) THEN b[i] ELSE 0]

\* b[:n] on literal bytes
Prefix(b, n) == SubSeq(b, 1, IF Len(b) < n THEN Len(b) ELSE n)

\* ------------------------------------------------------------ UTF-8
EncodeCp(c) ==
  IF c < 128 THEN << c >>
  ELSE IF c < 2048 THEN << 192 + (c \div 64), 128 + (c % 64) >>
  ELSE IF c < 65536
    THEN << 224 + (c \div 4096), 128 + ((c \div 64) % 64), 128 + (c % 64) >>
  ELSE << 240 + (c \div 262144), 128 + ((c \div 4096) % 64),
          128 + ((c \div 64) % 64), 128 + (c % 64) >>

\* str.encode("utf-8")
RECURSIVE Utf8(_)
Utf8(s) ==
  IF Len(s) = 0 THEN << >>
  ELSE IF Len(s) = 1 THEN EncodeCp(s[1])
  ELSE LET h == Len(s) \div 2
       IN  Utf8(SubSeq(s, 1, h)) \o Utf8(SubSeq(s, h + 1, Len(s)))

\* ------------------------------------------------------- input space
\* text constants
Str_aarch64 == << 97, 97, 114, 99, 104, 54, 52 >>
Str_x86_64 == << 120, 56, 54, 95, 54, 52 >>
ArchNames == << Str_aarch64, Str_x86_64 >>

\* relative paths, as sequences of components
P_atxt == << << 97, 46, 116, 120, 116 >> >>
P_ab == << << 97 >>, << 98 >> >>
P_long == << [i \in 1..127 |-> IF i <= 126 THEN 97 ELSE 233] >>
P_bs == << << 100, Backslash, 101 >> >>
P_big == << << 98, 105, 103 >> >>
P_e == << << 101 >> >>

\* The regular files a tree may hold: path, identity of the content, its
\* length and the length of its raw deflate stream at level 9.
Files ==
  { [path |-> P_atxt, id |-> 1, len |-> COMPRESS_THRESHOLD - 1, dlen |-> 20],
    [path |-> P_ab,   id |-> 2, len |-> COMPRESS_THRESHOLD, dlen |-> 20],
    [path |-> P_long, id |-> 3, len |-> COMPRESS_THRESHOLD, dlen |-> COMPRESS_THRESHOLD],
    [path |-> P_bs,   id |-> 4, len |-> COMPRESS_THRESHOLD, dlen |-> COMPRESS_THRESHOLD + 5],
    [path |-> P_big,  id |-> 5,
     len |-> max_size - (HeaderSize + ArchEntrySize + ManifestEntrySize),
     dlen |-> max_size],
    [path |-> P_e,    id |-> 6, len |-> 0, dlen |-> 2] }

Trees == { t \in SUBSET Files : Cardinality(t) <= MaxFiles }

OldBytes == Lit(<< 79, 76, 68 >>)

\* filepath.read_bytes()
read_bytes(f) == Chunk("raw", f.id, 0, f.len)

FileOfId(id) == CHOOSE f \in Files : f.id = id

\* -------------------------------------------------------------- zlib
\* the raw deflate stream of data at level 9
Deflate(data) ==
  IF data = << >> THEN Lit(<< 3, 0 >>)
  ELSE IF Len(data) = 1 /\ data[1].k = "raw" /\ data[1].from = 0
          /\ data[1].len = FileOfId(data[1].id).len
    THEN Chunk("z", data[1].id, 0, FileOfId(data[1].id).dlen)
  ELSE Chunk("z", 0, 0, BLen(data) + 5)

\* zlib.compress(data, 9): 2-byte zlib header, deflate stream, Adler-32
zlib_compress(data) ==
  Join(Join(Lit(<< 120, 218 >>), Deflate(data)),
       Chunk("adler", IF data = << >> THEN 0 ELSE data[1].id, 0, 4))

\* the matching raw-deflate decoder; a stream that is not a complete deflate
\* stream decodes to an error marker
Inflate(s) ==
  IF s = Lit(<< 3, 0 >>) THEN << >>
  ELSE IF Len(s) = 1 /\ s[1].k = "z" /\ s[1].id # 0 /\ s[1].from = 0
          /\ s[1].len = FileOfId(s[1].id).dlen
    THEN read_bytes(FileOfId(s[1].id))
  ELSE Chunk("error", 0, 0, 1)

\* compress_file accepting a deflate stream as long as the input
compress_file_gt(data) ==
  IF BLen(data) < COMPRESS_THRESHOLD THEN << data, 0 >>
  ELSE LET z == zlib_compress(data)
           compressed == Slice(z, 2, BLen(z) - 4)
       IN  IF BLen(compressed) > BLen(data) THEN << data, 0 >>
           ELSE << compressed, BLen(compressed) >>

\* compress_file stripping the zlib header only ([2:] for [2:-4])
compress_file_keeptrailer(data) ==
  IF BLen(data) < COMPRESS_THRESHOLD THEN << data, 0 >>
  ELSE LET z == zlib_compress(data)
           compressed == Slice(z, 2, BLen(z))
       IN  IF BLen(compressed) >= BLen(data) THEN << data, 0 >>
           ELSE << compressed, BLen(compressed) >>

\* ---------------------------------------------------- compress_file
compress_file(data) ==
  IF BLen(data) < COMPRESS_THRESHOLD THEN << data, 0 >>
  ELSE LET z == zlib_compress(data)
           compressed == Slice(z, 2, BLen(z) - 4)
       IN  IF BLen(compressed) >= BLen(data) THEN << data, 0 >>
           ELSE << compressed, BLen(compressed) >>

\* ---------------------------------------------------- collect_files
\* a < b on str: by codepoint, a proper prefix first
RECURSIVE StrLess(_, _)
StrLess(a, b) ==
  IF Len(b) = 0 THEN FALSE
  ELSE IF Len(a) = 0 THEN TRUE
  ELSE IF a[1] # b[1] THEN a[1] < b[1]
  ELSE StrLess(Tail(a), Tail(b))

\* p < q on pathlib paths: by component
RECURSIVE PathLess(_, _)
PathLess(p, q) ==
  IF Len(q) = 0 THEN FALSE
  ELSE IF Len(p) = 0 THEN TRUE
  ELSE IF p[1] # q[1] THEN StrLess(p[1], q[1])
  ELSE PathLess(Tail(p), Tail(q))

\* sorted(esp_path.rglob("*")), restricted to the regular files
RECURSIVE sorted(_)
sorted(S) ==
  IF S = {} THEN << >>
  ELSE LET m == CHOOSE x \in S : \A y \in S \ {x} : PathLess(x.path, y.path)
       IN  << m >> \o sorted(S \ {m})

\* str(rel) on a POSIX host
RECURSIVE StrOfPath(_)
StrOfPath(p) ==
  IF Len(p) = 0 THEN << >>
  ELSE IF Len(p) = 1 THEN p[1]
  ELSE p[1] \o << Slash >> \o StrOfPath(Tail(p))

\* s.replace("\\", "/")
Replace(s) ==
  IF Len(s) = 0 THEN << >>
  ELSE [i \in 1..Len(s) |-> IF s[i] = Backslash THEN Slash ELSE s[i]]

rel_str(f) == Replace(StrOfPath(f.path))

\* collect_files without sorted(): the order the directory scan happens to give
RECURSIVE scan_order(_)
scan_order(S) ==
  IF S = {} THEN << >>
  ELSE LET m == CHOOSE x \in S : \A y \in S : x.id >= y.id
       IN  << m >> \o scan_order(S \ {m})

collect_files_unsorted(esp) ==
  IF ~esp.exists THEN << >>
  ELSE LET fl == scan_order(esp.tree)
       IN  IF Len(fl) = 0 THEN << >>
           ELSE [i \in 1..Len(fl) |->
                   [rel_path |-> rel_str(fl[i]), data |-> read_bytes(fl[i])]]

collect_files(esp) ==
  IF ~esp.exists THEN << >>
  ELSE LET fl == sorted(esp.tree)
       IN  IF Len(fl) = 0 THEN << >>
           ELSE [i \in 1..Len(fl) |->
                   [rel_path |-> rel_str(fl[i]), data |-> read_bytes(fl[i])]]

\* -------------------------------------------------- fixed-width fields
\* rel_path.encode("utf-8")[:127] + b"\x00", ljust(128)
path_bytes(rel_path) ==
  Ljust(Prefix(Utf8(rel_path), PathField - 1) \o << 0 >>, PathField)

\* arch_name.encode("utf-8")[:15] + b"\x00", ljust(16)
name_bytes(arch_name) ==
  Ljust(Prefix(Utf8(arch_name), NameField - 1) \o << 0 >>, NameField)

\* struct.pack("<128s I I", path_bytes, comp_size, orig_size)
ManifestEntry(rel_path, csize, osize) ==
  Lit(path_bytes(rel_path) \o U32(csize) \o U32(osize))

\* struct.pack("<16s I I", name_bytes, data_offset, file_count)
ArchEntry(arch_name, offset, count) ==
  Lit(name_bytes(arch_name) \o U32(offset) \o U32(count))

\* struct.pack("<4s B B H", b"SURV", 1, len(arches), 0)
Header(n) == Lit(<< 83, 85, 82, 86 >> \o << 1 >> \o << n >> \o U16(0))

RECURSIVE Concat(_)
Concat(blobs) ==
  IF Len(blobs) = 0 THEN << >> ELSE Join(blobs[1], Concat(Tail(blobs)))

\* -------------------------------------------------------------- state
VARIABLES
  fs,           \* build_dir/<arch>/esp for each candidate architecture
  outFile,      \* the file at args.output
  pc,           \* position in main / pack_arch
  ai,           \* index of the candidate architecture being looked up
  arches,       \* main: arches
  header,       \* main: header
  data_offset,  \* main: data_offset
  arch_table,   \* main: arch_table
  arch_blobs,   \* main: arch_blobs
  k,            \* main: index of the architecture being packed
  files,        \* pack_arch: files
  fi,           \* pack_arch: index of the file being packed
  file_data,    \* pack_arch: file_data of the last iteration
  compressed,   \* pack_arch: compressed
  comp_size,    \* pack_arch: comp_size
  manifest,     \* pack_arch / main: manifest
  data,         \* pack_arch / main: data
  file_count,   \* main: file_count
  payload,      \* main: payload
  status        \* main's return value, -1 while running

vars == << fs, outFile, pc, ai, arches, header, data_offset, arch_table, arch_blobs,
           k, files, fi, file_data, compressed, comp_size, manifest, data,
           file_count, payload, status >>

mainLocals == << header, data_offset, arch_table, arch_blobs, k >>
packLocals == << files, fi, file_data, compressed, comp_size, manifest, data, file_count >>

NoDir == [exists |-> FALSE, tree |-> {}]
Dirs == { NoDir } \cup { [exists |-> TRUE, tree |-> t] : t \in Trees }

Init ==
  /\ fs \in [1..Len(ArchNames) -> Dirs]
  /\ outFile \in { [exists |-> FALSE, bytes |-> << >>],
                   [exists |-> TRUE, bytes |-> OldBytes] }
  /\ pc = "scan"
  /\ ai = 1
  /\ arches = << >>
  /\ header = << >>
  /\ data_offset = 0
  /\ arch_table = << >>
  /\ arch_blobs = << >>
  /\ k = 1
  /\ files = << >>
  /\ fi = 1
  /\ file_data = << >>
  /\ compressed = << >>
  /\ comp_size = 0
  /\ manifest = << >>
  /\ data = << >>
  /\ file_count = 0
  /\ payload = << >>
  /\ status = -1

\* ScanArch leaving out a directory that holds no file
ScanArch_skipempty ==
  /\ pc = "scan"
  /\ ai <= Len(ArchNames)
  /\ arches' = IF fs[ai].exists /\ fs[ai].tree # {}
                 THEN Append(arches, [name |-> ArchNames[ai], dir |-> ai])
                 ELSE arches
  /\ ai' = ai + 1
  /\ UNCHANGED << fs, outFile, pc, mainLocals, packLocals, payload, status >>

\* main, lines 119-123: one candidate architecture
ScanArch ==
  /\ pc = "scan"
  /\ ai <= Len(ArchNames)
  /\ arches' = IF fs[ai].exists
                 THEN Append(arches, [name |-> ArchNames[ai], dir |-> ai])
                 ELSE arches
  /\ ai' = ai + 1
  /\ UNCHANGED << fs, outFile, pc, mainLocals, packLocals, payload, status >>

\* NoArches with the emptiness test placed after the write
NoArches_afterwrite ==
  /\ pc = "scan"
  /\ ai > Len(ArchNames)
  /\ Len(arches) = 0
  /\ outFile' = [exists |-> TRUE, bytes |-> Header(0)]
  /\ status' = NoArchStatus
  /\ pc' = "done"
  /\ UNCHANGED << fs, ai, arches, mainLocals, packLocals, payload >>

\* main, lines 125-127
NoArches ==
  /\ pc = "scan"
  /\ ai > Len(ArchNames)
  /\ Len(arches) = 0
  /\ status' = NoArchStatus
  /\ pc' = "done"
  /\ UNCHANGED << fs, outFile, ai, arches, mainLocals, packLocals, payload >>

\* main, lines 129-137
BuildHeader ==
  /\ pc = "scan"
  /\ ai > Len(ArchNames)
  /\ Len(arches) # 0
  /\ header' = Header(Len(arches))
  /\ data_offset' = BLen(header') + ArchEntrySize * Len(arches)
  /\ arch_table' = << >>
  /\ arch_blobs' = << >>
  /\ k' = 1
  /\ pc' = "pack_arch"
  /\ UNCHANGED << fs, outFile, ai, arches, packLocals, payload, status >>

\* pack_arch, lines 83-89
PackArchBegin ==
  /\ pc = "pack_arch"
  /\ files' = collect_files(fs[arches[k].dir])
  /\ manifest' = << >>
  /\ data' = << >>
  /\ fi' = 1
  /\ IF Len(files') = 0
       THEN /\ file_count' = 0
            /\ pc' = "entry"
       ELSE /\ file_count' = file_count
            /\ pc' = "file"
  /\ UNCHANGED << fs, outFile, ai, arches, mainLocals, file_data, compressed,
                  comp_size, payload, status >>

\* PackFile appending the file's own bytes whatever compress_file returned
PackFile_rawdata ==
  /\ pc = "file"
  /\ LET rel_path == files[fi].rel_path
         r == compress_file(files[fi].data)
         orig_size == BLen(files[fi].data)
     IN  /\ file_data' = files[fi].data
         /\ compressed' = r[1]
         /\ comp_size' = r[2]
         /\ manifest' = Join(manifest, ManifestEntry(rel_path, r[2], orig_size))
         /\ data' = Join(data, files[fi].data)
  /\ fi' = fi + 1
  /\ IF fi = Len(files)
       THEN /\ file_count' = Len(files)
            /\ pc' = "entry"
       ELSE /\ file_count' = file_count
            /\ pc' = "file"
  /\ UNCHANGED << fs, outFile, ai, arches, mainLocals, files, payload, status >>

\* pack_arch, lines 91-105: one file
PackFile ==
  /\ pc = "file"
  /\ LET rel_path == files[fi].rel_path
         r == compress_file(files[fi].data)
         orig_size == BLen(files[fi].data)
     IN  /\ file_data' = files[fi].data
         /\ compressed' = r[1]
         /\ comp_size' = r[2]
         /\ manifest' = Join(manifest, ManifestEntry(rel_path, r[2], orig_size))
         /\ data' = Join(data, r[1])
  /\ fi' = fi + 1
  /\ IF fi = Len(files)
       THEN /\ file_count' = Len(files)
            /\ pc' = "entry"
       ELSE /\ file_count' = file_count
            /\ pc' = "file"
  /\ UNCHANGED << fs, outFile, ai, arches, mainLocals, files, payload, status >>

\* TableEntry advancing the offset by the data section only
TableEntry_dataonly ==
  /\ pc = "entry"
  /\ LET blob == Join(manifest, data)
     IN  /\ arch_table' = Join(arch_table, ArchEntry(arches[k].name, data_offset, file_count))
         /\ arch_blobs' = Append(arch_blobs, blob)
         /\ data_offset' = data_offset + BLen(data)
  /\ k' = k + 1
  /\ pc' = IF k = Len(arches) THEN "assemble" ELSE "pack_arch"
  /\ UNCHANGED << fs, outFile, ai, arches, header, packLocals, payload, status >>

\* main, lines 142-150
TableEntry ==
  /\ pc = "entry"
  /\ LET blob == Join(manifest, data)
     IN  /\ arch_table' = Join(arch_table, ArchEntry(arches[k].name, data_offset, file_count))
         /\ arch_blobs' = Append(arch_blobs, blob)
         /\ data_offset' = data_offset + BLen(blob)
  /\ k' = k + 1
  /\ pc' = IF k = Len(arches) THEN "assemble" ELSE "pack_arch"
  /\ UNCHANGED << fs, outFile, ai, arches, header, packLocals, payload, status >>

\* main, lines 153-155
Assemble ==
  /\ pc = "assemble"
  /\ payload' = Join(Join(header, arch_table), Concat(arch_blobs))
  /\ pc' = "write"
  /\ UNCHANGED << fs, outFile, ai, arches, mainLocals, packLocals, status >>

\* main, lines 158-159
WriteOutput ==
  /\ pc = "write"
  /\ outFile' = [exists |-> TRUE, bytes |-> payload]
  /\ pc' = "check"
  /\ UNCHANGED << fs, ai, arches, mainLocals, packLocals, payload, status >>

\* Oversize with >= for >
Oversize_ge ==
  /\ pc = "check"
  /\ BLen(payload) >= max_size
  /\ status' = OversizeStatus
  /\ pc' = "done"
  /\ UNCHANGED << fs, outFile, ai, arches, mainLocals, packLocals, payload >>

\* main, lines 165-169
Oversize ==
  /\ pc = "check"
  /\ BLen(payload) > max_size
  /\ status' = OversizeStatus
  /\ pc' = "done"
  /\ UNCHANGED << fs, outFile, ai, arches, mainLocals, packLocals, payload >>

\* main, lines 170-174
Fits ==
  /\ pc = "check"
  /\ ~(BLen(payload) > max_size)
  /\ status' = 0
  /\ pc' = "done"
  /\ UNCHANGED << fs, outFile, ai, arches, mainLocals, packLocals, payload >>

Next ==
  \/ ScanArch
  \/ NoArches
  \/ BuildHeader
  \/ PackArchBegin
  \/ PackFile
  \/ TableEntry
  \/ Assemble
  \/ WriteOutput
  \/ Oversize
  \/ Fits

Spec == Init /\ [][Next]_vars

\* ------------------------------------------------------------------
\* Reading a payload back by the documented format (lines 14-33): the
\* decoder's side, used to state the properties below.
RdBytes(s, off, n) == LitOf(Slice(s, off, off + n))

RdU32(s, off) ==
  LET b == RdBytes(s, off, 4)
  IN  IF Len(b) = 4 THEN b[1] + 256 * b[2] + 65536 * b[3] + 16777216 * b[4] ELSE -1

RdU8(s, off) ==
  LET b == RdBytes(s, off, 1) IN IF Len(b) = 1 THEN b[1] ELSE -1

\* a null-padded field read up to its first zero byte
CStr(b) ==
  LET z == { i \in 1..Len(b) : b[i] = 0 }
  IN  IF z = {} THEN b
      ELSE SubSeq(b, 1, (CHOOSE i \in z : \A j \in z : i <= j) - 1)

EntryPath(s, base, i) == RdBytes(s, base + ManifestEntrySize * (i - 1), PathField)
EntryCSize(s, base, i) == RdU32(s, base + ManifestEntrySize * (i - 1) + PathField)
EntryOSize(s, base, i) == RdU32(s, base + ManifestEntrySize * (i - 1) + PathField + 4)

StoredLen(s, base, i) ==
  IF EntryCSize(s, base, i) # 0 THEN EntryCSize(s, base, i) ELSE EntryOSize(s, base, i)

RECURSIVE StoredSum(_, _, _)
StoredSum(s, base, i) ==
  IF i <= 0 THEN 0 ELSE StoredLen(s, base, i) + StoredSum(s, base, i - 1)

\* the stored bytes manifest entry i describes, in a blob of n entries at base
StoredBytes(s, base, n, i) ==
  LET start == base + ManifestEntrySize * n + StoredSum(s, base, i - 1)
  IN  Slice(s, start, start + StoredLen(s, base, i))

ParseFile(s, base, n, i) ==
  [ path |-> CStr(EntryPath(s, base, i)),
    data |-> IF EntryCSize(s, base, i) # 0 THEN Inflate(StoredBytes(s, base, n, i))
             ELSE StoredBytes(s, base, n, i) ]

TableName(s, e) == RdBytes(s, HeaderSize + ArchEntrySize * (e - 1), NameField)
TableOffset(s, e) == RdU32(s, HeaderSize + ArchEntrySize * (e - 1) + NameField)
TableCount(s, e) == RdU32(s, HeaderSize + ArchEntrySize * (e - 1) + NameField + 4)

ParseArch(s, e) ==
  [ name |-> CStr(TableName(s, e)),
    files |-> IF TableCount(s, e) <= 0 THEN << >>
              ELSE [i \in 1..TableCount(s, e) |->
                      ParseFile(s, TableOffset(s, e), TableCount(s, e), i)] ]

RECURSIVE BlobSum(_, _)
BlobSum(blobs, n) == IF n <= 0 THEN 0 ELSE BLen(blobs[n]) + BlobSum(blobs, n - 1)

Written == pc \in {"check", "done"} /\ Len(arches) > 0
TreeOf(e) == fs[arches[e].dir].tree

\* ------------------------------------------------------------------
\* C1: in every written payload the offset field of table entry e is
\* 8 + 24 * arch_count + the lengths of the blobs of the entries before it,
\* the blob of entry e lies in the payload exactly at that offset, and the
\* running offset after the last architecture is the payload's length.
C1_OffsetsExact ==
  Written =>
    LET P == outFile.bytes
    IN  /\ RdU8(P, 5) = Len(arches)
        /\ \A e \in 1..Len(arches) :
             /\ TableOffset(P, e) = 8 + 24 * RdU8(P, 5) + BlobSum(arch_blobs, e - 1)
             /\ Slice(P, TableOffset(P, e), TableOffset(P, e) + BLen(arch_blobs[e]))
                  = arch_blobs[e]
        /\ data_offset = BLen(P)

C1_Witness ==
  /\ pc = "done"
  /\ Len(arches) = 2
  /\ BLen(arch_blobs[1]) > 0
  /\ BLen(arch_blobs[2]) > 0
  /\ TableOffset(outFile.bytes, 2) = 8 + 48 + BLen(arch_blobs[1])

\* C2: when pack_arch returns, the manifest holds one 136-byte entry per
\* file in the order of the files, the data section is the stored bytes of
\* the files in that order, the stored length of a file being its
\* compressed_size when non-zero and its original_size otherwise, and the
\* data section is as long as all stored lengths together.
C2_ManifestAligned ==
  pc = "entry" =>
    LET n == Len(files)
        blob == Join(manifest, data)
    IN  /\ file_count = n
        /\ BLen(manifest) = 136 * n
        /\ BLen(data) = StoredSum(manifest, 0, n)
        /\ \A i \in 1..n :
             /\ EntryPath(manifest, 0, i) = path_bytes(files[i].rel_path)
             /\ EntryOSize(manifest, 0, i) = BLen(files[i].data)
             /\ BLen(StoredBytes(blob, 0, n, i)) = StoredLen(manifest, 0, i)
             /\ ParseFile(blob, 0, n, i).data = files[i].data

C2_Witness ==
  /\ pc = "entry"
  /\ Len(files) = 2
  /\ EntryCSize(manifest, 0, 1) # 0
  /\ EntryCSize(manifest, 0, 2) = 0
  /\ BLen(files[2].data) > 0

\* C3: compress_file returns either its input with size field 0, or a
\* strictly shorter non-empty deflate stream with its length as size field;
\* the former whenever the input is shorter than 4096 bytes or the deflate
\* stream is not strictly shorter than the input.
C3_CompressContract ==
  /\ \/ compressed = file_data /\ comp_size = 0
     \/ /\ comp_size = BLen(compressed)
        /\ 0 < BLen(compressed)
        /\ BLen(compressed) < BLen(file_data)
        /\ Inflate(compressed) = file_data
  /\ BLen(file_data) < 4096 => compressed = file_data /\ comp_size = 0
  /\ BLen(Deflate(file_data)) >= BLen(file_data) => compressed = file_data /\ comp_size = 0

C3_Witness ==
  /\ pc = "entry"
  /\ BLen(file_data) >= 4096
  /\ BLen(Deflate(file_data)) = BLen(file_data)
  /\ comp_size = 0

\* C4 (as claimed): parsing the written payload recovers, under its own
\* architecture, every source file's exact bytes and exact relative path.
C4_RoundTripExactPath ==
  Written =>
    \A e \in 1..Len(arches) :
      LET a == ParseArch(outFile.bytes, e)
      IN  /\ a.name = Utf8(ArchNames[arches[e].dir])
          /\ Len(a.files) = Cardinality(TreeOf(e))
          /\ \A f \in TreeOf(e) : \E i \in 1..Len(a.files) :
               /\ a.files[i].path = Utf8(StrOfPath(f.path))
               /\ a.files[i].data = read_bytes(f)

\* C4 (amended): parsing the written payload recovers, under its own
\* architecture, every source file's exact bytes, and of its relative path
\* (backslashes turned into forward slashes) the first 127 bytes of the
\* UTF-8 encoding.
C4_RoundTrip ==
  Written =>
    \A e \in 1..Len(arches) :
      LET a == ParseArch(outFile.bytes, e)
      IN  /\ a.name = Utf8(ArchNames[arches[e].dir])
          /\ Len(a.files) = Cardinality(TreeOf(e))
          /\ \A f \in TreeOf(e) : \E i \in 1..Len(a.files) :
               /\ a.files[i].path = Prefix(Utf8(Replace(StrOfPath(f.path))), 127)
               /\ a.files[i].data = read_bytes(f)

C4_Witness ==
  /\ pc = "done"
  /\ Len(arches) = 2
  /\ \E f \in TreeOf(1) : f.path = P_long /\ ParseArch(outFile.bytes, 1).files[1].data = read_bytes(f)
  /\ \E f \in TreeOf(2) : f.path = P_ab
  /\ EntryCSize(outFile.bytes, TableOffset(outFile.bytes, 2), 1) # 0

\* C5: when no candidate architecture directory exists main ends with a
\* non-zero status having built nothing, and the output file changes only in
\* runs where some architecture directory exists.
C5_NothingWritten ==
  [][ /\ (outFile' # outFile => \E a \in 1..Len(ArchNames) : fs[a].exists)
      /\ ((\A a \in 1..Len(ArchNames) : ~fs[a].exists) /\ pc' = "done"
            => status' # 0 /\ header' = << >> /\ payload' = << >> /\ pc = "scan") ]_vars

C5_Witness ==
  /\ pc = "done"
  /\ \A a \in 1..Len(ArchNames) : ~fs[a].exists
  /\ status = 1
  /\ outFile = [exists |-> TRUE, bytes |-> OldBytes]

\* C6: a directory that exists and holds no regular file is counted in
\* arch_count and has a table entry with file_count 0 and an empty blob, so
\* that the next entry has the same offset; the run ends with status 0 unless
\* the payload is oversize, and every other architecture has all its files.
ManifestOf(fl) ==
  IF Len(fl) = 0 THEN << >>
  ELSE LET one(i) == ManifestEntry(fl[i].rel_path, compress_file(fl[i].data)[2],
                                   BLen(fl[i].data))
       IN  Concat([i \in 1..Len(fl) |-> one(i)])

DataOf(fl) ==
  IF Len(fl) = 0 THEN << >>
  ELSE Concat([i \in 1..Len(fl) |-> compress_file(fl[i].data)[1]])

\* the blob of an architecture packed on its own
BlobOf(fl) == Join(ManifestOf(fl), DataOf(fl))

C6_EmptyArch ==
  Written =>
    LET P == outFile.bytes
    IN  /\ RdU8(P, 5) = Cardinality({ a \in 1..Len(ArchNames) : fs[a].exists })
        /\ \A e \in 1..Len(arches) :
             /\ CStr(TableName(P, e)) = Utf8(ArchNames[arches[e].dir])
             /\ TableCount(P, e) = Cardinality(TreeOf(e))
             /\ TreeOf(e) = {} =>
                  /\ BLen(arch_blobs[e]) = 0
                  /\ e < Len(arches) => TableOffset(P, e + 1) = TableOffset(P, e)
                  /\ e = Len(arches) => TableOffset(P, e) = BLen(P)
             /\ TreeOf(e) # {} =>
                  Slice(P, TableOffset(P, e), TableOffset(P, e) + BLen(arch_blobs[e]))
                    = BlobOf(collect_files([exists |-> TRUE, tree |-> TreeOf(e)]))
        /\ pc = "done" /\ BLen(P) <= max_size => status = 0

C6_Witness ==
  /\ pc = "done"
  /\ Len(arches) = 2
  /\ TreeOf(1) = {}
  /\ Cardinality(TreeOf(2)) = 2
  /\ TableCount(outFile.bytes, 1) = 0
  /\ status = 0

\* C7: in every run with at least one architecture the complete payload is
\* in the output file before its length is compared with the capacity, and
\* the run ends with a non-zero status exactly when the payload is longer
\* than 2,686,976 bytes.
C7_WriteThenCheck ==
  /\ Written =>
       /\ outFile = [exists |-> TRUE, bytes |-> payload]
       /\ BLen(payload) = 8 + 24 * Len(arches) + BlobSum(arch_blobs, Len(arches))
  /\ pc = "check" => status = -1
  /\ pc = "done" /\ Len(arches) > 0 =>
       /\ status \in {0, 1}
       /\ status # 0 <=> BLen(outFile.bytes) > 2686976

C7_Witness ==
  /\ pc = "done"
  /\ BLen(outFile.bytes) = 2686976
  /\ status = 0

\* C8: the status returned when the payload was written but is larger than
\* the capacity differs from success and from the status returned when no
\* architecture directory is found.
C8_DistinctStatus ==
  pc = "done" /\ Len(arches) > 0 /\ BLen(payload) > max_size =>
    status # 0 /\ status # NoArchStatus

\* C9: every path field of the manifest and every name field of the table
\* has a terminating zero byte, holds only zero bytes after the first one,
\* and up to it is the encoding of a whole number of codepoints of the text
\* (so never ends in the middle of a multi-byte codepoint).
FieldOnBoundary(field, text) ==
  /\ \E i \in 1..Len(field) : field[i] = 0
  /\ \A i \in 1..Len(field) : i > Len(CStr(field)) => field[i] = 0
  /\ \E m \in 0..Len(text) : CStr(field) = Utf8(SubSeq(text, 1, m))

C9_CodepointBoundary ==
  /\ pc \in {"file", "entry"} =>
       \A i \in 1..(fi - 1) :
         i <= Len(files) /\ BLen(manifest) >= 136 * i
           => FieldOnBoundary(EntryPath(manifest, 0, i), files[i].rel_path)
  /\ \A e \in 1..Len(arch_blobs) :
       FieldOnBoundary(TableName(Join(Header(0), arch_table), e), arches[e].name)

\* C10 (as claimed): collect_files returns the files in ascending order of
\* the relative path strings it returns.
C10_StringOrder ==
  pc \in {"file", "entry"} =>
    \A i, j \in 1..Len(files) : i < j => StrLess(files[i].rel_path, files[j].rel_path)

\* C10 (amended): collect_files returns exactly the regular files of the
\* tree, in ascending order of their relative paths compared component by
\* component (each component by codepoint), and the manifest is in that
\* order.
C10_ComponentOrder ==
  pc \in {"file", "entry"} =>
    LET t == TreeOf(k)
        item(f) == [rel_path |-> rel_str(f), data |-> read_bytes(f)]
        index(f) == CHOOSE i \in 1..Len(files) : files[i] = item(f)
    IN  /\ Len(files) = Cardinality(t)
        /\ \A f \in t : \E i \in 1..Len(files) : files[i] = item(f)
        /\ \A f, g \in t : PathLess(f.path, g.path) => index(f) < index(g)
        /\ \A i \in 1..(fi - 1) :
             i <= Len(files) => CStr(EntryPath(manifest, 0, i))
                                  = Prefix(Utf8(files[i].rel_path), 127)

C10_Witness ==
  /\ pc = "entry"
  /\ Len(files) = 2
  /\ files[1].rel_path = StrOfPath(P_ab)
  /\ files[2].rel_path = StrOfPath(P_atxt)
  /\ CStr(EntryPath(manifest, 0, 1)) = Utf8(StrOfPath(P_ab))

====
